---- MODULE Spec2Model ----
(***************************************************************************)
(* A model of BEVTransformer                                               *)
(* (waymo_playground/projects/mmdet3d_plugin/models/modules/               *)
(* bev_transformer.py): the reference-point generator, the alignment of    *)
(* the previous BEV state, the flattening of the camera features and the   *)
(* encode -> decode control flow of forward.                               *)
(*                                                                         *)
(* Tensors are records [shape, elems]: the shape as torch reports it and   *)
(* the elements in row-major (logical) order.  Real numbers are exact      *)
(* fractions <<numerator, denominator>>; floating-point rounding is not    *)
(* modelled.                                                               *)
(***************************************************************************)
EXTENDS Integers, Sequences, FiniteSets, TLC

VARIABLES self, call, prior

vars == <<self, call, prior>>

(***************************************************************************)
(* Bounds of the model.                                                    *)
(***************************************************************************)
MaxSide == 3      \* bev_h, bev_w of get_reference_points range over 1..MaxSide
MaxZ == 3         \* Z ranges over 1..MaxZ
MaxD == 3         \* D ranges over 1..MaxD
MaxBs == 2        \* batch sizes range over 1..MaxBs
MaxBev == 2       \* bev_h, bev_w of forward range over 1..MaxBev
MaxLevels == 2    \* mlvl_feats holds 1..MaxLevels levels
MaxCams == 2      \* cameras range over 1..MaxCams
EmbedDims == 2    \* embed_dims of the modelled modules

(***************************************************************************)
(* Tensor algebra (torch semantics on shape and row-major elements).       *)
(***************************************************************************)
RECURSIVE Prod(_)
Prod(s) == IF s = <<>> THEN 1 ELSE Head(s) * Prod(Tail(s))

RECURSIVE SumSeq(_)
SumSeq(s) == IF s = <<>> THEN 0 ELSE Head(s) + SumSeq(Tail(s))

Stride(shape, i) == Prod(SubSeq(shape, i + 1, Len(shape)))

Unravel(n, shape) == [i \in 1..Len(shape) |-> (n \div Stride(shape, i)) % shape[i]]

Ravel(idx, shape) == SumSeq([i \in 1..Len(shape) |-> idx[i] * Stride(shape, i)])

At(t, idx) == t.elems[Ravel(idx, t.shape) + 1]

MkTensor(shape, F(_)) ==
    [shape |-> shape, elems |-> [n \in 1..Prod(shape) |-> F(Unravel(n - 1, shape))]]

\* Tensor.permute(*perm): axis i of the result is axis perm[i] of t (0-based).
Permute(t, perm) ==
    LET r == Len(t.shape)
        newshape == [i \in 1..r |-> t.shape[perm[i] + 1]]
        Old(j) == [a \in 1..r |-> j[CHOOSE i \in 1..r : perm[i] + 1 = a]]
    IN  MkTensor(newshape, LAMBDA j : At(t, Old(j)))

\* Tensor.flatten(start): the axes from start (0-based) on become one.
Flatten(t, start) ==
    [shape |-> SubSeq(t.shape, 1, start) \o <<Prod(SubSeq(t.shape, start + 1, Len(t.shape)))>>,
     elems |-> t.elems]

\* torch.stack(ts, -1) of tensors of one shape.
StackLast(ts) ==
    LET r == Len(ts[1].shape)
    IN  MkTensor(ts[1].shape \o <<Len(ts)>>,
                 LAMBDA j : At(ts[j[r + 1] + 1], SubSeq(j, 1, r)))

\* t[None].repeat(bs, 1, ..., 1)
NoneRepeat(t, bs) == MkTensor(<<bs>> \o t.shape, LAMBDA j : At(t, Tail(j)))

\* t.repeat(bs, 1, ..., 1): axis 0 tiled bs times.
Repeat0(t, bs) ==
    MkTensor(<<t.shape[1] * bs>> \o Tail(t.shape),
             LAMBDA j : At(t, <<j[1] % t.shape[1]>> \o Tail(j)))

\* Tensor.unsqueeze(dim)
Unsqueeze(t, dim) ==
    [shape |-> SubSeq(t.shape, 1, dim) \o <<1>> \o SubSeq(t.shape, dim + 1, Len(t.shape)),
     elems |-> t.elems]

\* t / k for a positive integer k, on fractions.
DivBy(t, k) == [shape |-> t.shape, elems |-> [n \in 1..Len(t.elems) |-> <<t.elems[n][1], t.elems[n][2] * k>>]]

FracEq(a, b) == a[1] * b[2] = b[1] * a[2]
FracLt(a, b) == a[1] * b[2] < b[1] * a[2]

\* torch.linspace(0.5, n - 0.5, steps): element i (0-based) as a fraction.
\* One step yields the start value alone.
Linspace(n, steps) ==
    [i \in 1..steps |->
        IF steps = 1 THEN <<1, 2>>
        ELSE <<(steps - 1) + (i - 1) * (2 * n - 2), 2 * (steps - 1)>>]

(***************************************************************************)
(* BEVTransformer.get_reference_points                                     *)
(***************************************************************************)
\* RefPoints3d with xs and ys stacked in the other order
RefPoints3dSwapped(H, W, Z, D, bs) ==
    LET zl == Linspace(Z, D)
        xl == Linspace(W, W)
        yl == Linspace(H, H)
        zs == DivBy(MkTensor(<<D, H, W>>, LAMBDA j : zl[j[1] + 1]), Z)
        xs == DivBy(MkTensor(<<D, H, W>>, LAMBDA j : xl[j[3] + 1]), W)
        ys == DivBy(MkTensor(<<D, H, W>>, LAMBDA j : yl[j[2] + 1]), H)
        ref_3d == StackLast(<<ys, xs, zs>>)
        flat == Permute(Flatten(Permute(ref_3d, <<0, 3, 1, 2>>), 2), <<0, 2, 1>>)
    IN  NoneRepeat(flat, bs)

RefPoints3d(H, W, Z, D, bs) ==
    LET zl == Linspace(Z, D)
        xl == Linspace(W, W)
        yl == Linspace(H, H)
        zs == DivBy(MkTensor(<<D, H, W>>, LAMBDA j : zl[j[1] + 1]), Z)
        xs == DivBy(MkTensor(<<D, H, W>>, LAMBDA j : xl[j[3] + 1]), W)
        ys == DivBy(MkTensor(<<D, H, W>>, LAMBDA j : yl[j[2] + 1]), H)
        ref_3d == StackLast(<<xs, ys, zs>>)
        flat == Permute(Flatten(Permute(ref_3d, <<0, 3, 1, 2>>), 2), <<0, 2, 1>>)
    IN  NoneRepeat(flat, bs)

\* RefPoints2d with the meshgrid in 'xy' indexing
RefPoints2dXY(H, W, bs) ==
    LET yl == Linspace(H, H)
        xl == Linspace(W, W)
        ref_y0 == MkTensor(<<W, H>>, LAMBDA j : yl[j[2] + 1])
        ref_x0 == MkTensor(<<W, H>>, LAMBDA j : xl[j[1] + 1])
        ref_y == DivBy([shape |-> <<1, H * W>>, elems |-> ref_y0.elems], H)
        ref_x == DivBy([shape |-> <<1, H * W>>, elems |-> ref_x0.elems], W)
        ref_2d == StackLast(<<ref_x, ref_y>>)
    IN  Unsqueeze(Repeat0(ref_2d, bs), 2)

RefPoints2d(H, W, bs) ==
    LET yl == Linspace(H, H)
        xl == Linspace(W, W)
        \* torch.meshgrid(ys, xs): 'ij' indexing
        ref_y0 == MkTensor(<<H, W>>, LAMBDA j : yl[j[1] + 1])
        ref_x0 == MkTensor(<<H, W>>, LAMBDA j : xl[j[2] + 1])
        ref_y == DivBy([shape |-> <<1, H * W>>, elems |-> ref_y0.elems], H)
        ref_x == DivBy([shape |-> <<1, H * W>>, elems |-> ref_x0.elems], W)
        ref_2d == StackLast(<<ref_x, ref_y>>)
    IN  Unsqueeze(Repeat0(ref_2d, bs), 2)

get_reference_points(H, W, Z, D, dim, bs) ==
    IF dim = "3d" THEN RefPoints3d(H, W, Z, D, bs)
    ELSE RefPoints2d(H, W, bs)

NoCall == [op |-> "none"]

(***************************************************************************)
(* Python values of the mixed boolean/string options use_shift and         *)
(* rotate_prev_bev, as strings: "False", "True", the sentinel and "bogus"  *)
(* (some other non-empty string).  Truthy is Python's truth value of them. *)
(***************************************************************************)
Truthy(v) == v \notin {"False", "None", ""}

(***************************************************************************)
(* BEVTransformer.__init__ and init_layers: the fields of self.  The two   *)
(* embedding tables are their shape and an opaque token for their values.  *)
(***************************************************************************)
BEVTransformerInit(cfg) ==
    [only_encoder |-> cfg.only_encoder,
     embed_dims |-> cfg.embed_dims,
     num_feature_levels |-> cfg.num_feature_levels,
     num_cams |-> cfg.num_cams,
     fp16_enabled |-> FALSE,
     Z |-> cfg.Z,
     D |-> cfg.D,
     rotate_prev_bev |-> cfg.rotate_prev_bev,
     use_can_bus |-> cfg.use_can_bus,
     can_bus_norm |-> cfg.can_bus_norm,
     use_shift |-> cfg.use_shift,
     two_stage_num_proposals |-> cfg.two_stage_num_proposals,
     level_embeds |-> [shape |-> <<cfg.num_feature_levels, cfg.embed_dims>>, data |-> "level_embeds"],
     cams_embeds |-> [shape |-> <<cfg.num_cams, cfg.embed_dims>>, data |-> "cams_embeds"],
     use_cams_embeds |-> cfg.use_cams_embeds,
     count |-> 0]

(***************************************************************************)
(* forward, lines 247-277: the shift vector.  The ego-motion record is     *)
(* [dx, dy, heading, angle]: can_bus[0], can_bus[1], can_bus[-2] in        *)
(* degrees (can_bus[-2] / pi * 180) and can_bus[-1].  Translations are     *)
(* axis-aligned and headings multiples of 90 degrees, where sqrt, arctan2, *)
(* sin and cos are exact.                                                  *)
(***************************************************************************)
Sqrt(n) == CHOOSE r \in 0..n : r * r = n

\* np.arctan2(dy, dx) / np.pi * 180
Arctan2Deg(dy, dx) ==
    CASE dy = 0 /\ dx >= 0 -> 0
      [] dy > 0 /\ dx = 0 -> 90
      [] dy = 0 /\ dx < 0 -> 180
      [] dy < 0 /\ dx = 0 -> -90

SinDeg(a) == CASE (a + 720) % 360 = 0 -> 0 [] (a + 720) % 360 = 90 -> 1
               [] (a + 720) % 360 = 180 -> 0 [] (a + 720) % 360 = 270 -> -1

CosDeg(a) == CASE (a + 720) % 360 = 0 -> 1 [] (a + 720) % 360 = 90 -> 0
               [] (a + 720) % 360 = 180 -> -1 [] (a + 720) % 360 = 270 -> 0

\* grid_length = 0.512 as the fraction GridNum / GridDen
GridNum == 64
GridDen == 125

ComputeShift(s, bev_h, bev_w, can_bus) ==
    LET delta_x == can_bus.dx
        delta_y == can_bus.dy
        ego_angle == can_bus.heading
        translation_length == Sqrt(delta_x * delta_x + delta_y * delta_y)
        ta == Arctan2Deg(delta_y, delta_x)
        translation_angle == IF ta < 0 THEN ta + 360 ELSE ta
        bev_angle == ego_angle - translation_angle
    IN  IF s.use_shift = "waymo_shift"
        THEN [x |-> <<translation_length * CosDeg(bev_angle) * GridDen, GridNum * bev_w>>,
              y |-> <<translation_length * SinDeg(bev_angle) * GridDen, GridNum * bev_h>>]
        ELSE IF Truthy(s.use_shift)
        THEN [x |-> <<translation_length * SinDeg(bev_angle) * GridDen, GridNum * bev_w>>,
              y |-> <<translation_length * CosDeg(bev_angle) * GridDen, GridNum * bev_h>>]
        ELSE [x |-> <<0, 1>>, y |-> <<0, 1>>]

(***************************************************************************)
(* forward, lines 279-304: the alignment of the previous BEV state.        *)
(***************************************************************************)
None == [given |-> FALSE, shape |-> <<>>, elems |-> <<>>]

\* A supplied previous state: its elements are numbered 1..numel, so that
\* every position holds a distinct value; 0 is the fill of rotate.
PrevTensor(shape) == [given |-> TRUE, shape |-> shape, elems |-> [n \in 1..Prod(shape) |-> n]]

\* Tensor.reshape(d1, d2, -1): raises unless numel is a multiple of d1 * d2.
ReshapeInfer(t, d1, d2) ==
    LET n == Len(t.elems)
    IN  IF d1 * d2 > 0 /\ n % (d1 * d2) = 0
        THEN [ok |-> TRUE, t |-> [shape |-> <<d1, d2, n \div (d1 * d2)>>, elems |-> t.elems]]
        ELSE [ok |-> FALSE, t |-> t]

\* rotate with the rows re-ordered before it and not after it (the variant
\* of lines 291-297 with one of its two re-orderings left out)
RotateReordered(img, angle, center2) ==
    LET H == img.shape[2]
        W == img.shape[3]
        Src(j) == IF angle = 0 THEN <<H - 1 - j[2], j[3]>>
                  ELSE <<center2[2] - 1 - (H - 1 - j[2]), center2[1] - 1 - j[3]>>
    IN  MkTensor(img.shape,
                 LAMBDA j : LET p == Src(j)
                            IN IF p[1] \in 0..(H - 1) /\ p[2] \in 0..(W - 1)
                               THEN At(img, <<j[1], p[1], p[2]>>) ELSE 0)

\* torchvision rotate(img, angle, center) of a [C, H, W] tensor, nearest
\* interpolation, zero fill, for angle 0 (every pixel maps to itself) and
\* angle 180 (pixel (x, y) is read from (2cx - 1 - x, 2cy - 1 - y), where
\* the centre is (W/2, H/2) unless given).  center2 is twice the centre.
Rotate(img, angle, center2) ==
    LET H == img.shape[2]
        W == img.shape[3]
        Src(j) == IF angle = 0 THEN <<j[2], j[3]>>
                  ELSE <<center2[2] - 1 - j[2], center2[1] - 1 - j[3]>>
    IN  MkTensor(img.shape,
                 LAMBDA j : LET p == Src(j)
                            IN IF p[1] \in 0..(H - 1) /\ p[2] \in 0..(W - 1)
                               THEN At(img, <<j[1], p[1], p[2]>>) ELSE 0)

RotateBranch(prev, bev_h, bev_w, angle, center2) ==
    LET num_prev_bev == prev.shape[2]
        r1 == ReshapeInfer(prev, bev_h, bev_w)
        img == Permute(r1.t, <<2, 0, 1>>)
        rot == Rotate(img, angle, center2)
        back == Permute(rot, <<1, 2, 0>>)
        r2 == ReshapeInfer(back, bev_h * bev_w, num_prev_bev)
    IN  IF ~r1.ok THEN [ok |-> FALSE, t |-> None]
        ELSE IF ~r2.ok THEN [ok |-> FALSE, t |-> None]
        ELSE [ok |-> TRUE, t |-> [given |-> TRUE, shape |-> r2.t.shape, elems |-> r2.t.elems]]

AlignPrev(s, prev_bev, bev_h, bev_w, rotation_angle) ==
    IF ~prev_bev.given THEN [ok |-> TRUE, t |-> None]
    ELSE
      LET p0 == IF prev_bev.shape[2] = bev_h * bev_w
                THEN LET q == Permute(prev_bev, <<1, 0, 2>>)
                     IN [given |-> TRUE, shape |-> q.shape, elems |-> q.elems]
                ELSE prev_bev
      IN  IF s.rotate_prev_bev = "waymo_rotate"
          THEN RotateBranch(p0, bev_h, bev_w, rotation_angle, <<140, 300>>)
          ELSE IF Truthy(s.rotate_prev_bev)
          THEN RotateBranch(p0, bev_h, bev_w, rotation_angle, <<bev_w, bev_h>>)
          ELSE [ok |-> TRUE, t |-> p0]

(***************************************************************************)
(* forward, lines 306-308: the ego-motion embedding added to the BEV       *)
(* query.  can_bus_mlp is a learned map: its value is the term             *)
(* <<"can_bus_mlp", record>>, and the query is the broadcast bev_embed     *)
(* plus that term times the flag use_can_bus.                              *)
(***************************************************************************)
CanBusEmbed(s, can_bus) ==
    IF s.use_can_bus THEN <<"can_bus_mlp", can_bus>> ELSE <<"zero">>

BevQuery(s, bev_h, bev_w, bs, can_bus) ==
    [shape |-> <<bev_h * bev_w, bs, s.embed_dims>>,
     base |-> "bev_embed",
     plus |-> CanBusEmbed(s, can_bus)]

(***************************************************************************)
(* forward, lines 310-329: the flattening of the camera features, on       *)
(* shapes.  A level is <<h, w>>; its tensor is [bs, cams, c, h, w].        *)
(***************************************************************************)
PermuteShape(shape, perm) == [i \in 1..Len(shape) |-> shape[perm[i] + 1]]

FlattenShape(shape, start) ==
    SubSeq(shape, 1, start) \o <<Prod(SubSeq(shape, start + 1, Len(shape)))>>

\* torch broadcasting of two shapes of one rank: equal sizes, or one of
\* them 1 (a size 1 against a size 0 gives 0).
Broadcastable(a, b) == \A i \in 1..Len(a) : a[i] = b[i] \/ a[i] = 1 \/ b[i] = 1

Broadcast(a, b) == [i \in 1..Len(a) |-> IF a[i] = 1 THEN b[i] ELSE a[i]]

\* self.level_embeds[None, None, lvl:lvl + 1, :]: the slice is empty when
\* lvl (0-based) is not a row of the table.
LevelEmbedSlice(s, lvl) ==
    <<1, 1, IF lvl < s.level_embeds.shape[1] THEN 1 ELSE 0, s.level_embeds.shape[2]>>

\* self.cams_embeds[:, None, None, :]
CamsEmbedView(s) == <<s.cams_embeds.shape[1], 1, 1, s.cams_embeds.shape[2]>>

\* One iteration of the loop over the levels: the shape of feat, or a raise.
FlattenLevel(s, lvl, bs, cams, c, hw) ==
    LET f0 == PermuteShape(FlattenShape(<<bs, cams, c, hw[1], hw[2]>>, 3), <<1, 0, 3, 2>>)
        okc == ~s.use_cams_embeds \/ Broadcastable(f0, CamsEmbedView(s))
        f1 == IF s.use_cams_embeds THEN Broadcast(f0, CamsEmbedView(s)) ELSE f0
        okl == Broadcastable(f1, LevelEmbedSlice(s, lvl))
        f2 == Broadcast(f1, LevelEmbedSlice(s, lvl))
    IN  [ok |-> okc /\ okl, shape |-> f2]

RECURSIVE Cumsum(_)
Cumsum(q) == IF q = <<>> THEN <<>>
             ELSE LET r == Cumsum(SubSeq(q, 1, Len(q) - 1))
                  IN  Append(r, (IF r = <<>> THEN 0 ELSE r[Len(r)]) + q[Len(q)])

\* torch.cat((zeros(1), spatial_shapes.prod(1).cumsum(0)[:-1]))
LevelStartIndex(spatial_shapes) ==
    LET cs == Cumsum([l \in 1..Len(spatial_shapes) |-> spatial_shapes[l][1] * spatial_shapes[l][2]])
    IN  <<0>> \o SubSeq(cs, 1, Len(cs) - 1)

\* the concatenated features left as [num_cam, bs, tokens, embed_dims]
FinalPermuteNone(shape) == shape

\* feat_flatten.permute(0, 2, 1, 3) of the concatenated features
FinalPermute(shape) == PermuteShape(shape, <<0, 2, 1, 3>>)

FlattenFeats(s, levels, bs, cams, c) ==
    LET n == Len(levels)
        per == [l \in 1..n |-> FlattenLevel(s, l - 1, bs, cams, c, levels[l])]
        okloop == \A l \in 1..n : per[l].ok
        \* torch.cat(feat_flatten, 2): every axis but 2 must agree
        okcat == \A l \in 1..n : \A i \in {1, 2, 4} : per[l].shape[i] = per[1].shape[i]
        cat == <<per[1].shape[1], per[1].shape[2],
                 SumSeq([l \in 1..n |-> per[l].shape[3]]), per[1].shape[4]>>
    IN  IF ~okloop \/ ~okcat
        THEN [ok |-> FALSE, feat_flatten |-> <<>>, spatial_shapes |-> <<>>, level_start_index |-> <<>>]
        ELSE [ok |-> TRUE,
              feat_flatten |-> FinalPermute(cat),
              spatial_shapes |-> levels,
              level_start_index |-> LevelStartIndex(levels)]

(***************************************************************************)
(* The fusion sequence (self.encoder) and the decode sequence              *)
(* (self.decoder) are opaque: the encoder returns some 3-axis tensor over  *)
(* the BEV cells, the batch and the embedding, in one of the two layouts,  *)
(* with elements numbered 1..numel; the decoder returns two opaque values. *)
(***************************************************************************)
EncoderOutputs(query) ==
    LET hw == query.shape[1]
        bs == query.shape[2]
        e == query.shape[3]
    IN  {[shape |-> sh, elems |-> [n \in 1..(hw * bs * e) |-> n]] : sh \in {<<hw, bs, e>>, <<bs, hw, e>>}}

(***************************************************************************)
(* BEVTransformer.forward.  a holds the arguments: levels, bs, cams, c     *)
(* (mlvl_feats), bev_h, bev_w, prev_bev, img_metas (one ego-motion record  *)
(* per batch element), return_bev.  enc_out is what the encoder returns.   *)
(* bev_embed has bev_h * bev_w rows, bev_pos is [bs, embed_dims, bev_h,    *)
(* bev_w] and query_embed is 2 * embed_dims wide.                          *)
(***************************************************************************)
\* the record of the last batch element instead of the first
EgoRecordLast(img_metas) == img_metas[Len(img_metas)]

\* kwargs['img_metas'][0]['can_bus']: the record of batch element 0
EgoRecord(img_metas) == img_metas[1]

\* calls is the log of the collaborators invoked, in order.
Raised(a, stage) ==
    [op |-> "forward", args |-> a, raised |-> TRUE, stage |-> stage,
     calls |-> <<>>, enc |-> NoCall, enc_out |-> None, dec |-> NoCall,
     ret |-> [kind |-> "raise"]]

EncoderCall(query, fl, ref_2d, ref_3d, a, prev, shift) ==
    [op |-> "encoder", query |-> query, key |-> fl.feat_flatten, value |-> fl.feat_flatten,
     ref_2d |-> ref_2d, ref_3d |-> ref_3d, bev_h |-> a.bev_h, bev_w |-> a.bev_w,
     bev_pos |-> PermuteShape(FlattenShape(<<a.bs, query.shape[3], a.bev_h, a.bev_w>>, 2), <<2, 0, 1>>),
     spatial_shapes |-> fl.spatial_shapes, level_start_index |-> fl.level_start_index,
     prev_bev |-> prev, shift |-> shift, img_metas |-> a.img_metas]

\* bev_embed.permute(1, 0, 2) left as it is
DecoderValueUnpermuted(enc_out) == enc_out

\* bev_embed = bev_embed.permute(1, 0, 2), the value handed to the decoder
DecoderValue(enc_out) == Permute(enc_out, <<1, 0, 2>>)

DecoderCall(a, value) ==
    [op |-> "decoder", query |-> "query", key |-> "None", value |-> value,
     query_pos |-> "query_pos", reference_points |-> "sigmoid(reference_points(query_pos))",
     spatial_shapes |-> <<<<a.bev_h, a.bev_w>>>>, level_start_index |-> <<0>>,
     img_metas |-> a.img_metas]

ForwardResult(s, a, enc_out) ==
    LET bs == a.bs
        ref_3d == get_reference_points(a.bev_h, a.bev_w, s.Z, s.D, "3d", bs)
        ref_2d == get_reference_points(a.bev_h, a.bev_w, 8, 4, "2d", bs)
        can_bus == EgoRecord(a.img_metas)
        rotation_angle == can_bus.angle
        shift == ComputeShift(s, a.bev_h, a.bev_w, can_bus)
        al == AlignPrev(s, a.prev_bev, a.bev_h, a.bev_w, rotation_angle)
        query == BevQuery(s, a.bev_h, a.bev_w, bs, can_bus)
        fl == FlattenFeats(s, a.levels, a.bs, a.cams, a.c)
        enc == EncoderCall(query, fl, ref_2d, ref_3d, a, al.t, shift)
        value == DecoderValue(enc_out)
        dec == DecoderCall(a, value)
        triple == <<"inter_states", "init_reference_out", "inter_references_out">>
    IN  IF ~al.ok THEN Raised(a, "align")
        ELSE IF ~fl.ok THEN Raised(a, "flatten")
        ELSE IF s.only_encoder
        THEN [op |-> "forward", args |-> a, raised |-> FALSE, stage |-> "return",
              calls |-> <<"encoder">>, enc |-> enc, enc_out |-> enc_out, dec |-> NoCall,
              ret |-> [kind |-> "bev", bev |-> enc_out]]
        ELSE [op |-> "forward", args |-> a, raised |-> FALSE, stage |-> "return",
              calls |-> <<"encoder", "decoder">>, enc |-> enc, enc_out |-> enc_out, dec |-> dec,
              ret |-> IF a.return_bev
                      THEN [kind |-> "bev_triple", bev |-> value, triple |-> triple]
                      ELSE [kind |-> "triple", triple |-> triple]]

\* One call of the static method; both modes are computed for the same
\* (H, W, bs) so that the result of one can be compared with the other.
GetReferencePoints ==
    /\ call.op = "ref_args"
    /\ call' = [op |-> "get_reference_points",
                H |-> call.H, W |-> call.W, Z |-> call.Z, D |-> call.D, bs |-> call.bs,
                ref_3d |-> get_reference_points(call.H, call.W, call.Z, call.D, "3d", call.bs),
                ref_2d |-> get_reference_points(call.H, call.W, call.Z, call.D, "2d", call.bs)]
    /\ UNCHANGED <<self, prior>>

\* the defaults of __init__
DefaultLevels == 4
DefaultCams == 6
DefaultZ == 8
DefaultD == 4
DefaultProposals == 300

RefArgs ==
    {[op |-> "ref_args", H |-> H, W |-> W, Z |-> Z, D |-> D, bs |-> bs] :
        H \in 1..MaxSide, W \in 1..MaxSide, Z \in (1..MaxZ) \cup {DefaultZ},
        D \in (1..MaxD) \cup {DefaultD}, bs \in 1..MaxBs}

InitRef == self = [op |-> "static"] /\ call \in RefArgs /\ prior = NoCall

SpecRef == InitRef /\ [][GetReferencePoints]_vars

RefDone == call.op = "get_reference_points"

FracInUnit(f) == FracLt(<<0, 1>>, f) /\ FracLt(f, <<1, 1>>)

\* a + c = 2 * b on fractions: b is midway between a and c
FracMid(a, b, c) == (a[1] * c[2] + c[1] * a[2]) * b[2] = 2 * b[1] * a[2] * c[2]

\* C5: in '3d' mode get_reference_points returns, per batch element, D*H*W
\* points, depth-major and then by the cell index y*W+x; the point at depth
\* d and cell (x, y) is ((x+0.5)/W, (y+0.5)/H, z_d/Z), the z_d being D evenly
\* spaced samples from 0.5 to Z-0.5, and every coordinate is strictly
\* between 0 and 1.
C5_RefPoints3d ==
    RefDone =>
      LET r == call.ref_3d
          H == call.H
          W == call.W
          Z == call.Z
          D == call.D
          z(b, d) == At(r, <<b, d, 0, 2>>)
      IN  /\ r.shape = <<call.bs, D, H * W, 3>>
          /\ Len(r.elems) = call.bs * D * H * W * 3
          /\ \A b \in 0..(call.bs - 1), d \in 0..(D - 1), y \in 0..(H - 1), x \in 0..(W - 1) :
                /\ FracEq(At(r, <<b, d, y * W + x, 0>>), <<2 * x + 1, 2 * W>>)
                /\ FracEq(At(r, <<b, d, y * W + x, 1>>), <<2 * y + 1, 2 * H>>)
                /\ FracEq(At(r, <<b, d, y * W + x, 2>>), z(b, d))
                /\ \A k \in 0..2 : FracInUnit(At(r, <<b, d, y * W + x, k>>))
          /\ \A b \in 0..(call.bs - 1) :
                /\ FracEq(z(b, 0), <<1, 2 * Z>>)
                /\ D > 1 => FracEq(z(b, D - 1), <<2 * Z - 1, 2 * Z>>)
                /\ \A d \in 0..(D - 3) : FracMid(z(b, d), z(b, d + 1), z(b, d + 2))

\* the scenario H = W = 2, Z = 8, D = 1 with its four points in order
C5_Witness ==
    /\ RefDone
    /\ call.H = 2 /\ call.W = 2 /\ call.Z = 8 /\ call.D = 1
    /\ SubSeq(call.ref_3d.elems, 1, 12) =
         <<<<1, 4>>, <<1, 4>>, <<1, 16>>,   <<3, 4>>, <<1, 4>>, <<1, 16>>,
           <<1, 4>>, <<3, 4>>, <<1, 16>>,   <<3, 4>>, <<3, 4>>, <<1, 16>>>>

\* C6: in '2d' mode get_reference_points returns H*W points per batch
\* element, strictly inside (0,1), and the point of cell index i is the
\* (x, y) pair of the '3d' point of the same cell index at every depth,
\* also when H # W.
C6_RefPoints2d ==
    RefDone =>
      LET r2 == call.ref_2d
          r3 == call.ref_3d
      IN  /\ r2.shape = <<call.bs, call.H * call.W, 1, 2>>
          /\ \A b \in 0..(call.bs - 1), i \in 0..(call.H * call.W - 1), k \in 0..1 :
                /\ FracInUnit(At(r2, <<b, i, 0, k>>))
                /\ \A d \in 0..(call.D - 1) :
                      FracEq(At(r2, <<b, i, 0, k>>), At(r3, <<b, d, i, k>>))

\* a grid with H # W: cell index 4 of a 2 x 3 grid is (x, y) = (1, 1)
C6_Witness ==
    /\ RefDone
    /\ call.H = 2 /\ call.W = 3 /\ call.D = 2
    /\ FracEq(At(call.ref_2d, <<0, 4, 0, 0>>), <<3, 6>>)
    /\ FracEq(At(call.ref_2d, <<0, 4, 0, 1>>), <<3, 4>>)

(***************************************************************************)
(* The modules and the arguments of forward that the model draws.          *)
(***************************************************************************)
DefaultCfg ==
    [num_feature_levels |-> DefaultLevels, num_cams |-> DefaultCams,
     two_stage_num_proposals |-> DefaultProposals, Z |-> DefaultZ, D |-> DefaultD,
     embed_dims |-> EmbedDims, rotate_prev_bev |-> "True", only_encoder |-> FALSE,
     use_can_bus |-> TRUE, can_bus_norm |-> TRUE, use_shift |-> "True", use_cams_embeds |-> TRUE]

ShiftOptions == {"False", "True", "waymo_shift", "bogus"}
RotateOptions == {"False", "True", "waymo_rotate", "bogus"}

Rec(dx, dy, heading, angle) == [dx |-> dx, dy |-> dy, heading |-> heading, angle |-> angle]

CanBusSet == {Rec(0, 0, 0, 0), Rec(1, 0, 0, 0), Rec(0, 1, 90, 180), Rec(1, 0, 90, 0), Rec(0, -1, 0, 180)}

Still == Rec(0, 0, 0, 0)

FeatShapes == {<<1, 1>>, <<1, 2>>, <<2, 2>>, <<4, 4>>}

LevelLists == UNION {[1..n -> FeatShapes] : n \in 1..MaxLevels}

\* the spatial sizes bev_h * bev_w of the grids drawn
GridSizes == {h * w : h \in 1..MaxBev, w \in 1..MaxBev}

BaseArgs ==
    [levels |-> <<<<1, 2>>>>, bs |-> 1, cams |-> DefaultCams, c |-> EmbedDims,
     bev_h |-> 2, bev_w |-> 1, prev_bev |-> None, img_metas |-> <<Still>>, return_bev |-> FALSE]

\* the camera features vary
FlattenModules ==
    {BEVTransformerInit([DefaultCfg EXCEPT !.num_feature_levels = nfl, !.num_cams = nc,
                                           !.use_cams_embeds = uce]) :
        nfl \in 1..MaxLevels, nc \in 1..MaxCams, uce \in BOOLEAN}

FlattenArgs ==
    {[BaseArgs EXCEPT !.levels = lv, !.bs = bs, !.cams = nc, !.img_metas = [b \in 1..bs |-> Still]] :
        lv \in LevelLists, bs \in 1..MaxBs, nc \in 1..MaxCams}

\* the previous state, the grid and the rotation vary
AlignModules ==
    {BEVTransformerInit([DefaultCfg EXCEPT !.rotate_prev_bev = r]) : r \in RotateOptions}

AlignArgs ==
    {[BaseArgs EXCEPT !.bev_h = h, !.bev_w = w, !.prev_bev = p, !.img_metas = <<Rec(0, 0, 0, ang)>>] :
        h \in 1..MaxBev, w \in 1..MaxBev, ang \in {0, 180},
        p \in {None} \cup {PrevTensor(<<d1, d2, EmbedDims>>) : d1 \in GridSizes, d2 \in GridSizes}}

\* the options, the ego motion and the requested return vary
ControlModules ==
    {BEVTransformerInit([DefaultCfg EXCEPT !.use_shift = us, !.rotate_prev_bev = r,
                                           !.only_encoder = oe, !.use_can_bus = ucb]) :
        us \in ShiftOptions, r \in RotateOptions, oe \in BOOLEAN, ucb \in BOOLEAN}

ControlArgs ==
    {[BaseArgs EXCEPT !.img_metas = <<r>>, !.return_bev = rb, !.prev_bev = p] :
        r \in CanBusSet, rb \in BOOLEAN, p \in {None, PrevTensor(<<2, 1, EmbedDims>>)}}

Pending(a) == [op |-> "pending", args |-> a]

(***************************************************************************)
(* One call of forward on the module self: its outcome is recorded in      *)
(* call.  Nothing of self is assigned in forward.                          *)
(***************************************************************************)
\* forward with the debug counter of lines 349-362 left active
ForwardCallCounting(a, enc_out) ==
    /\ call' = ForwardResult(self, a, enc_out)
    /\ self' = [self EXCEPT !.count = @ + 1]

ForwardCall(a, enc_out) ==
    /\ call' = ForwardResult(self, a, enc_out)
    /\ self' = self

QueryOf(a) == BevQuery(self, a.bev_h, a.bev_w, a.bs, EgoRecord(a.img_metas))

\* a single call, on a module and arguments drawn at the start
Forward ==
    /\ call.op = "pending"
    /\ \E o \in EncoderOutputs(QueryOf(call.args)) : ForwardCall(call.args, o)
    /\ prior' = prior

InitForward ==
    /\ prior = NoCall
    /\ \/ self \in FlattenModules /\ call \in {Pending(a) : a \in FlattenArgs}
       \/ self \in AlignModules /\ call \in {Pending(a) : a \in AlignArgs}
       \/ self \in ControlModules /\ call \in {Pending(a) : a \in ControlArgs}

SpecForward == InitForward /\ [][Forward]_vars

(***************************************************************************)
(* Any sequence of calls of forward on one module; prior keeps the         *)
(* outcome of the call before the last one.                                *)
(***************************************************************************)
SeqModules ==
    {BEVTransformerInit([DefaultCfg EXCEPT !.only_encoder = oe, !.use_shift = us]) :
        oe \in BOOLEAN, us \in {"True", "waymo_shift"}}

SeqCanBus == {Rec(1, 0, 0, 0), Rec(1, 0, 90, 180)}

\* a batch of two; without a previous state, with one in the layout
\* [bev_h * bev_w, bs, embed_dims], and with one that reshape rejects
SeqArgs ==
    {[BaseArgs EXCEPT !.bs = 2, !.img_metas = m, !.return_bev = pr[1], !.prev_bev = pr[2]] :
        m \in [1..2 -> SeqCanBus],
        pr \in {<<FALSE, None>>, <<TRUE, PrevTensor(<<2, 2, EmbedDims>>)>>,
                <<FALSE, PrevTensor(<<3, 1, 1>>)>>}}

Init == self \in SeqModules /\ call = NoCall /\ prior = NoCall

ForwardNext ==
    \E a \in SeqArgs :
        \E o \in EncoderOutputs(QueryOf(a)) :
            /\ ForwardCall(a, o)
            /\ prior' = call

Next == ForwardNext

Spec == Init /\ [][Next]_vars

(***************************************************************************)
(* Properties of the flattening (SpecForward).                             *)
(***************************************************************************)
Returned == call.op = "forward" /\ ~call.raised

Tokens(levels) == SumSeq([l \in 1..Len(levels) |-> levels[l][1] * levels[l][2]])

PrefixSums(lsi, levels) ==
    /\ Len(lsi) = Len(levels)
    /\ lsi[1] = 0
    /\ \A l \in 1..(Len(levels) - 1) :
          /\ lsi[l + 1] = lsi[l] + levels[l][1] * levels[l][2]
          /\ lsi[l + 1] > lsi[l]

\* C1: for every non-empty list of levels, level_start_index is the
\* sequence of prefix sums of h_l*w_l starting at 0, strictly increasing,
\* and the token axis of the flattened features is sum(h_l*w_l) long.
C1_LevelStartIndex ==
    Returned =>
      /\ PrefixSums(call.enc.level_start_index, call.args.levels)
      /\ call.enc.key[2] = Tokens(call.args.levels)

\* The same for the lists that hold at most num_feature_levels levels.
LevelStartIndexWithinTable ==
    (Returned /\ Len(call.args.levels) <= self.num_feature_levels) =>
      /\ PrefixSums(call.enc.level_start_index, call.args.levels)
      /\ call.enc.key[2] = Tokens(call.args.levels)

\* the levels [(4,4),(2,2)] give [0,16] and 20 tokens
LevelStartIndexExample ==
    /\ Returned
    /\ call.args.levels = <<<<4, 4>>, <<2, 2>>>>
    /\ call.enc.level_start_index = <<0, 16>>
    /\ call.enc.key[2] = 20

\* the tokens of the levels that have a row in the level-embedding table
TableTokens(levels, rows) ==
    SumSeq([l \in 1..Len(levels) |-> IF l <= rows THEN levels[l][1] * levels[l][2] ELSE 0])

\* C2 as stated: the fusion sequence receives, as key and as value, a
\* tensor with the axes [batch, num_cams, total_tokens, E].
C2_BatchFirst ==
    (Returned /\ call.args.cams = self.num_cams) =>
      /\ call.enc.key = call.enc.value
      /\ Len(call.enc.key) = 4
      /\ call.enc.key[1] = call.args.bs
      /\ call.enc.key[2] = self.num_cams
      /\ call.enc.key[3] = TableTokens(call.args.levels, self.num_feature_levels)
      /\ call.enc.key[4] = self.embed_dims

\* C2 amended: the fusion sequence receives, as key and as value, a tensor
\* with the axes [num_cams, total_tokens, batch, E], for every list of
\* levels shaped [batch, num_cams, E, h_l, w_l] on which the call reaches
\* the fusion sequence.
C2_CamFirst ==
    (Returned /\ call.args.cams = self.num_cams) =>
      /\ call.enc.key = call.enc.value
      /\ Len(call.enc.key) = 4
      /\ call.enc.key[1] = self.num_cams
      /\ call.enc.key[2] = TableTokens(call.args.levels, self.num_feature_levels)
      /\ call.enc.key[3] = call.args.bs
      /\ call.enc.key[4] = self.embed_dims

\* one batch element, two cameras, the levels [(4,4),(2,2)]
C2_Witness ==
    /\ Returned
    /\ call.args.bs = 1 /\ call.args.cams = 2 /\ self.num_cams = 2
    /\ call.args.levels = <<<<4, 4>>, <<2, 2>>>>
    /\ call.enc.key = <<2, 20, 1, EmbedDims>>

(***************************************************************************)
(* Properties of the alignment of the previous state (SpecForward).        *)
(***************************************************************************)
GridSize == call.args.bev_h * call.args.bev_w

PrevGiven == call.op = "forward" /\ call.args.prev_bev.given

\* neither of the first two axes of the previous state is bev_h * bev_w long
PrevMismatch ==
    /\ PrevGiven
    /\ call.args.prev_bev.shape[1] # GridSize
    /\ call.args.prev_bev.shape[2] # GridSize

\* C3: a previous state whose spatial size does not match bev_h*bev_w
\* makes the call fail before the fusion sequence is invoked, in every
\* rotate_prev_bev setting.
C3_MismatchFails ==
    PrevMismatch => (call.raised /\ call.calls = <<>>)

SupportedShift == {"False", "True", "waymo_shift"}
SupportedRotate == {"False", "True", "waymo_rotate"}

\* C4: an unsupported value of use_shift or rotate_prev_bev makes the first
\* forward call fail (construction having accepted it).
C4_UnsupportedFails ==
    (call.op = "forward" /\ (self.use_shift \notin SupportedShift
                             \/ self.rotate_prev_bev \notin SupportedRotate))
      => call.raised

SameTensor(t, u) == t.shape = u.shape /\ t.elems = u.elems

\* t is u with its first two axes swapped
Transposed(t, u) ==
    /\ t.shape = <<u.shape[2], u.shape[1], u.shape[3]>>
    /\ \A i \in 0..(u.shape[1] - 1), j \in 0..(u.shape[2] - 1), k \in 0..(u.shape[3] - 1) :
          At(t, <<j, i, k>>) = At(u, <<i, j, k>>)

AngleZero == PrevGiven /\ EgoRecord(call.args.img_metas).angle = 0

\* C7: with rotation_angle = 0 the state passed to the fusion sequence has
\* the shape of the supplied previous state and its value at every
\* position, for every supplied state and every rotate_prev_bev setting
\* (stated here for the states one of whose first two axes is bev_h*bev_w
\* long; the others are the subject of C3).
C7_AngleZeroIdentity ==
    (AngleZero /\ ~PrevMismatch /\ ~call.raised)
      => SameTensor(call.enc.prev_bev, call.args.prev_bev)

\* C7 amended: with rotation_angle = 0, a previous state whose second axis
\* is bev_h*bev_w long is passed with its first two axes swapped; any other
\* one is passed unchanged when rotation is off or its first axis is
\* bev_h*bev_w long.
C7_AngleZeroAligned ==
    (AngleZero /\ ~call.raised) =>
      LET p == call.args.prev_bev
          q == call.enc.prev_bev
      IN  /\ p.shape[2] = GridSize => Transposed(q, p)
          /\ (p.shape[2] # GridSize /\ (p.shape[1] = GridSize \/ ~Truthy(self.rotate_prev_bev)))
                => SameTensor(q, p)

\* a 2 x 2 grid, a state [4, 1, E], rotation on, angle 0
C7_Witness ==
    /\ AngleZero /\ ~call.raised
    /\ self.rotate_prev_bev = "True"
    /\ call.args.bev_h = 2 /\ call.args.bev_w = 2
    /\ call.args.prev_bev.shape = <<4, 1, EmbedDims>>
    /\ call.enc.prev_bev.elems = call.args.prev_bev.elems

(***************************************************************************)
(* Properties of the control flow and of the return value (SpecForward).   *)
(***************************************************************************)
BevLayout == <<GridSize, call.args.bs, self.embed_dims>>

Triple == <<"inter_states", "init_reference_out", "inter_references_out">>

\* C8: forward returns the fused BEV state alone in encoder-only mode,
\* without invoking the decode sequence; otherwise it invokes the decode
\* sequence once after the fusion sequence and returns the three decoder
\* results, paired with the fused BEV state exactly when return_bev is set;
\* a returned BEV state is the output of the fusion sequence, in the layout
\* [H*W, batch, E] (here: whenever the fusion sequence returned that layout).
C8_ReturnsFusedBev ==
    Returned =>
      /\ self.only_encoder =>
            /\ call.calls = <<"encoder">>
            /\ call.ret.kind = "bev"
      /\ ~self.only_encoder =>
            /\ call.calls = <<"encoder", "decoder">>
            /\ call.ret.kind = (IF call.args.return_bev THEN "bev_triple" ELSE "triple")
            /\ call.ret.triple = Triple
      /\ call.ret.kind \in {"bev", "bev_triple"} =>
            /\ SameTensor(call.ret.bev, call.enc_out)
            /\ call.enc_out.shape = BevLayout => call.ret.bev.shape = BevLayout

\* C8 amended: in encoder-only mode forward returns the output of the
\* fusion sequence as it is and never invokes the decode sequence;
\* otherwise it invokes the decode sequence once, after the fusion
\* sequence, on that output with its first two axes swapped, and returns
\* the three decoder results, paired exactly when return_bev is set with
\* the swapped tensor that the decoder received.
C8_ReturnsDecoderValue ==
    Returned =>
      /\ self.only_encoder =>
            /\ call.calls = <<"encoder">>
            /\ call.ret.kind = "bev"
            /\ SameTensor(call.ret.bev, call.enc_out)
      /\ ~self.only_encoder =>
            /\ call.calls = <<"encoder", "decoder">>
            /\ Transposed(call.dec.value, call.enc_out)
            /\ call.ret.kind = (IF call.args.return_bev THEN "bev_triple" ELSE "triple")
            /\ call.ret.triple = Triple
            /\ call.args.return_bev => SameTensor(call.ret.bev, call.dec.value)

\* the fusion sequence returned [H*W, batch, E] = [2, 1, E] and forward
\* returned [1, 2, E] with the three decoder results
C8_Witness ==
    /\ Returned
    /\ ~self.only_encoder /\ call.args.return_bev
    /\ call.enc_out.shape = <<2, 1, EmbedDims>>
    /\ call.ret.kind = "bev_triple"
    /\ call.ret.bev.shape = <<1, 2, EmbedDims>>
    /\ call.calls = <<"encoder", "decoder">>

(***************************************************************************)
(* Properties of sequences of calls (Spec).                                *)
(***************************************************************************)
\* C9: no call of forward, returning or raising, writes the module: the
\* embedding tables keep their row counts and values, the flags and the
\* debug counter are not assigned, and no field is added that could hold a
\* previous BEV state.
C9_ForwardKeepsModule ==
    [][/\ self' = self
       /\ DOMAIN self' = DOMAIN self
       /\ self'.count = 0
       /\ self'.level_embeds = [shape |-> <<self.num_feature_levels, self.embed_dims>>, data |-> "level_embeds"]
       /\ self'.cams_embeds = [shape |-> <<self.num_cams, self.embed_dims>>, data |-> "cams_embeds"]]_vars

\* two calls were made, the second with a previous state; the last raised
C9_Witness ==
    /\ prior.op = "forward" /\ ~prior.raised /\ prior.args.prev_bev.given
    /\ call.op = "forward" /\ call.raised
    /\ self.count = 0

\* the arguments of two calls differ at most in the ego-motion records of
\* the batch elements other than 0
SameButOtherRecords(a, b) ==
    /\ [a EXCEPT !.img_metas = <<>>] = [b EXCEPT !.img_metas = <<>>]
    /\ Len(a.img_metas) = Len(b.img_metas)
    /\ a.img_metas[1] = b.img_metas[1]

\* C10: two calls that differ only in the ego-motion records of batch
\* elements other than 0 pass the same shift, the same aligned previous
\* state and the same query to the fusion sequence.
C10_OnlyFirstRecord ==
    (/\ call.op = "forward" /\ prior.op = "forward"
     /\ SameButOtherRecords(call.args, prior.args))
      => /\ call.raised = prior.raised
         /\ ~call.raised =>
               /\ call.enc.shift = prior.enc.shift
               /\ call.enc.prev_bev = prior.enc.prev_bev
               /\ call.enc.query = prior.enc.query

\* two calls with a previous state whose records of batch element 1 differ
\* in translation, heading and rotation angle
C10_Witness ==
    /\ call.op = "forward" /\ prior.op = "forward"
    /\ ~call.raised /\ ~prior.raised
    /\ SameButOtherRecords(call.args, prior.args)
    /\ call.args.prev_bev.given
    /\ call.args.img_metas[1] = Rec(1, 0, 90, 180)
    /\ call.args.img_metas[2] = Rec(1, 0, 0, 0)
    /\ prior.args.img_metas[2] = Rec(1, 0, 90, 180)
    /\ call.enc.prev_bev.elems # call.args.prev_bev.elems
====
